---- MODULE Spec2Model ----
(***************************************************************************)
(* when2when: common availability of the participants of a scheduling      *)
(* poll (src/analyze.py), the two fetchers that normalise a poll           *)
(* (src/get_data/) and the load handler of the app (src/app.py).           *)
(*                                                                         *)
(* Instants are datetimes with minute resolution, written as the number    *)
(* of minutes since midnight of day 0; a timedelta is a number of minutes. *)
(* A list is a sequence, a dict is a sequence of <<key, value>> pairs in   *)
(* insertion order (Python dicts keep insertion order), a name is a        *)
(* string.                                                                 *)
(***************************************************************************)
EXTENDS Integers, Sequences, FiniteSets, TLC

VARIABLES
    pc,                     \* which call of the analysis has been made
    data,                   \* the NormalizedData under analysis
    participants,           \* the participants argument
    reduced,                \* a second participants argument, for a second call
    yielded,                \* what find_available_times(data, participants) yielded
    yieldedReduced,         \* what find_available_times(data, reduced) yielded
    slots,                  \* merge_consecutive_slots: the slots argument
    slot_minutes,           \* merge_consecutive_slots: the slot width
    min_duration_minutes,   \* merge_consecutive_slots: the threshold
    merged,                 \* what merge_consecutive_slots returned
    formatted,              \* format_time_range of each merged range
    max_missing,            \* find_alternatives: the max_missing argument
    grouped,                \* what get_available_times_grouped(data, participants) returned
    blockers,               \* what find_who_blocks(data, participants) returned
    alternatives,           \* what find_alternatives(data, participants, max_missing) returned
    session_data,           \* app: st.session_state.data
    shown,                  \* app: the message the load handler showed last
    fetched,                \* app: the upstream reply to the last load, None if none was asked
    cache,                  \* app: the entries of st.cache_data, url -> NormalizedData
    loads                   \* app: how many times the load button was handled

intersectVars == <<data, participants, reduced, yielded, yieldedReduced>>
mergeVars == <<slots, slot_minutes, min_duration_minutes, merged, formatted>>

altVars == <<max_missing, grouped, blockers, alternatives>>

loadVars == <<session_data, shown, fetched, cache, loads>>

vars == <<pc, intersectVars, mergeVars, altVars, loadVars>>

None == "None"

-----------------------------------------------------------------------------
(* Bounds and input universes                                              *)

MaxSlots == 3
MaxParticipants == 2

\* slot instants of the intersector's schedules
Instants == {0, 15, 30}
\* names recorded in a poll, and a name no poll records
PollNames == {"A", "B"}
Stranger == "Z"

-----------------------------------------------------------------------------
(* Helpers                                                                 *)

Range(s) == {s[i] : i \in 1..Len(s)}

SeqsUpTo(S, n) == UNION {[1..k -> S] : k \in 0..n}

InjectiveSeqsUpTo(S, n) ==
    {s \in SeqsUpTo(S, n) : \A i, j \in 1..Len(s) : i # j => s[i] # s[j]}

Min(a, b) == IF a <= b THEN a ELSE b

\* the variables of the calls a specification does not make
IdleIntersect ==
    /\ data = None
    /\ participants = None
    /\ reduced = None
    /\ yielded = None
    /\ yieldedReduced = None

IdleMerge ==
    /\ slots = None
    /\ slot_minutes = None
    /\ min_duration_minutes = None
    /\ merged = None
    /\ formatted = None

IdleAlt ==
    /\ max_missing = None
    /\ grouped = None
    /\ blockers = None
    /\ alternatives = None

IdleLoad ==
    /\ session_data = None
    /\ shown = None
    /\ fetched = None
    /\ cache = <<>>
    /\ loads = 0

\* a dict: <<key, value>> pairs in insertion order, keys unique
DictHas(d, k) == \E i \in 1..Len(d) : d[i][1] = k
DictGet(d, k) == d[CHOOSE i \in 1..Len(d) : d[i][1] = k][2]
DictSet(d, k, v) ==
    IF DictHas(d, k)
    THEN [i \in 1..Len(d) |-> IF d[i][1] = k THEN <<k, v>> ELSE d[i]]
    ELSE Append(d, <<k, v>>)
DictKeys(d) == {d[i][1] : i \in 1..Len(d)}

-----------------------------------------------------------------------------
(* src/analyze.py: find_available_times                                    *)

\* data["availability"].get(slot, []) read through set()
AvailablePeople(d, slot) ==
    IF slot \in DOMAIN d.availability THEN d.availability[slot] ELSE {}

IsAvailableAny(d, P, slot) == \E n \in Range(P) : n \in AvailablePeople(d, slot)

IsAvailableExact(d, P, slot) == Range(P) = AvailablePeople(d, slot)

\* participant_set.issubset(available_people)
IsAvailable(d, P, slot) == Range(P) \subseteq AvailablePeople(d, slot)

\* the generator, materialised: the slots of data["slots"], in order, that pass
FindAvailableTimes(d, P) ==
    SelectSeq(d.slots, LAMBDA slot : IsAvailable(d, P, slot))

-----------------------------------------------------------------------------
(* Specification of the intersector: one schedule, a call with the         *)
(* requested participants, then a call with a list drawn from them.        *)

Schedules ==
    {[slot_minutes |-> 15, slots |-> s, availability |-> av] :
        s \in InjectiveSeqsUpTo(Instants, MaxSlots),
        av \in UNION {[D -> SUBSET PollNames] : D \in SUBSET Instants}}

InitIntersect ==
    /\ pc = "start"
    /\ data \in {d \in Schedules : DOMAIN d.availability \subseteq Range(d.slots)}
    /\ participants \in SeqsUpTo(PollNames \cup {Stranger}, MaxParticipants)
    /\ reduced = None
    /\ yielded = None
    /\ yieldedReduced = None
    /\ IdleMerge
    /\ IdleAlt
    /\ IdleLoad

CallFindAvailableTimes ==
    /\ pc = "start"
    /\ yielded' = FindAvailableTimes(data, participants)
    /\ pc' = "full"
    /\ UNCHANGED <<data, participants, reduced, yieldedReduced, mergeVars, altVars, loadVars>>

CallFindAvailableTimesReduced ==
    /\ pc = "full"
    /\ \E P \in SeqsUpTo(PollNames \cup {Stranger}, MaxParticipants) :
        /\ Range(P) \subseteq Range(participants)
        /\ reduced' = P
        /\ yieldedReduced' = FindAvailableTimes(data, P)
    /\ pc' = "done"
    /\ UNCHANGED <<data, participants, yielded, mergeVars, altVars, loadVars>>

NextIntersect == CallFindAvailableTimes \/ CallFindAvailableTimesReduced

SpecIntersect == InitIntersect /\ [][NextIntersect]_vars

-----------------------------------------------------------------------------
(* C1, C2                                                                  *)

\* positions of data["slots"] at which every requested name is recorded available
MatchingPositions(d, P) ==
    {i \in 1..Len(d.slots) :
        \A n \in Range(P) :
            /\ d.slots[i] \in DOMAIN d.availability
            /\ n \in d.availability[d.slots[i]]}

\* C1: find_available_times yields, in the order of data["slots"], exactly the
\* slots at which every requested name is in the slot's availability (none when
\* the slot has no entry); a name in no availability set yields nothing and an
\* empty participants list yields every slot.
C1_ExactlyCommonSlots ==
    pc # "start" =>
        LET idx == MatchingPositions(data, participants) IN
        /\ Len(yielded) = Cardinality(idx)
        /\ \A k \in 1..Len(yielded) :
            \E i \in idx :
                /\ Cardinality({j \in idx : j <= i}) = k
                /\ yielded[k] = data.slots[i]
        /\ (Stranger \in Range(participants) => yielded = <<>>)
        /\ (participants = <<>> => yielded = data.slots)

C1_Witness ==
    /\ pc = "full"
    /\ Len(participants) = 2
    /\ participants[1] # participants[2]
    /\ Len(data.slots) = 2
    /\ data.slots[1] > data.slots[2]
    /\ yielded = <<data.slots[2]>>

\* C2: subset monotonicity: when set(reduced) is a subset of set(participants),
\* every slot yielded for participants is also yielded for reduced.
C2_SubsetMonotonicity ==
    (pc = "done" /\ Range(reduced) \subseteq Range(participants)) =>
        Range(yielded) \subseteq Range(yieldedReduced)

C2_Witness ==
    /\ pc = "done"
    /\ Len(participants) = 2
    /\ Len(reduced) = 1
    /\ yielded # <<>>
    /\ Len(yieldedReduced) > Len(yielded)

-----------------------------------------------------------------------------
(* src/analyze.py: merge_consecutive_slots                                 *)

RECURSIVE InsertSorted(_, _)
InsertSorted(x, s) ==
    IF s = <<>> THEN <<x>>
    ELSE IF x < Head(s) THEN <<x>> \o s
    ELSE <<Head(s)>> \o InsertSorted(x, Tail(s))

RECURSIVE SortAscending(_)
SortAscending(s) ==
    IF s = <<>> THEN <<>> ELSE InsertSorted(s[Len(s)], SortAscending(SubSeq(s, 1, Len(s) - 1)))

SortedSlotsUnsorted(s) == s

\* sorted_slots = sorted(slots)
SortedSlots(s) == SortAscending(s)

CloseRangeAtLastSlot(start, end, w) == <<start, end>>

\* (start, end + timedelta(minutes=slot_minutes))
CloseRange(start, end, w) == <<start, end + w>>

\* the for loop over sorted_slots[1:] and the append after it
RECURSIVE MergeLoop(_, _, _, _, _, _)
MergeLoop(ss, i, start, end, acc, w) ==
    IF i > Len(ss) THEN Append(acc, CloseRange(start, end, w))
    ELSE IF ss[i] - end = w THEN MergeLoop(ss, i + 1, start, ss[i], acc, w)
    ELSE MergeLoop(ss, i + 1, ss[i], ss[i], Append(acc, CloseRange(start, end, w)), w)

\* (e - s) >= min_duration
LongEnough(r, m) == r[2] - r[1] >= m

MergeConsecutiveSlots(s, w, m) ==
    IF s = <<>> THEN <<>>
    ELSE LET ss == SortedSlots(s)
             all == MergeLoop(ss, 2, ss[1], ss[1], <<>>, w)
         IN  IF m > 0 THEN SelectSeq(all, LAMBDA r : LongEnough(r, m)) ELSE all

-----------------------------------------------------------------------------
(* src/analyze.py: format_time_range. The returned string is                *)
(* "HH:MM ~ HH:MM (duration_str)"; it is kept as its parts: the two clock  *)
(* readings and the components of duration_str, each a number and a unit.  *)

SecondsPerDay == 86400
MinutesPerDay == 1440

\* timedelta.seconds: the seconds left after whole days are taken out
TimedeltaSeconds(d) == (d * 60) % SecondsPerDay

\* strftime('%H:%M')
ClockReading(t) == <<(t % MinutesPerDay) \div 60, t % 60>>

FormatTimeRange(start, end) ==
    LET seconds == TimedeltaSeconds(end - start)
        hours == seconds \div 3600
        remainder == seconds % 3600
        minutes == remainder \div 60
    IN  [start |-> ClockReading(start),
         end |-> ClockReading(end),
         duration |-> (IF hours > 0 THEN <<<<hours, "hours">>>> ELSE <<>>)
                      \o (IF minutes > 0 THEN <<<<minutes, "minutes">>>> ELSE <<>>)]

-----------------------------------------------------------------------------
(* Specification of the merger: a list of instants in any order, a slot    *)
(* width and a threshold; the list is merged, then each range is formatted.*)

MaxMergeLen == 4

MergeInstants == {0, 5, 15, 30, 60, 720, 1440}
SlotWidths == {0, 15, 720}
Thresholds == {0, 30, 60}

InitMerge ==
    /\ pc = "start"
    /\ slots \in SeqsUpTo(MergeInstants, MaxMergeLen)
    /\ slot_minutes \in SlotWidths
    /\ min_duration_minutes \in Thresholds
    /\ merged = None
    /\ formatted = None
    /\ IdleIntersect
    /\ IdleAlt
    /\ IdleLoad

CallMergeConsecutiveSlots ==
    /\ pc = "start"
    /\ merged' = MergeConsecutiveSlots(slots, slot_minutes, min_duration_minutes)
    /\ pc' = "merged"
    /\ UNCHANGED <<slots, slot_minutes, min_duration_minutes, formatted, intersectVars, altVars, loadVars>>

CallFormatTimeRange ==
    /\ pc = "merged"
    /\ formatted' = [i \in 1..Len(merged) |-> FormatTimeRange(merged[i][1], merged[i][2])]
    /\ pc' = "formatted"
    /\ UNCHANGED <<slots, slot_minutes, min_duration_minutes, merged, intersectVars, altVars, loadVars>>

NextMerge == CallMergeConsecutiveSlots \/ CallFormatTimeRange

SpecMerge == InitMerge /\ [][NextMerge]_vars

-----------------------------------------------------------------------------
(* C3, C4, C10                                                             *)

Distinct(s) == \A i, j \in 1..Len(s) : i # j => s[i] # s[j]

\* the instant just before t, and just after t, among the given instants
HasPredecessorAt(S, t, w) ==
    \E u \in S : u < t /\ (\A v \in S : v < t => v <= u) /\ t - u = w
HasSuccessorAt(S, t, w) ==
    \E u \in S : u > t /\ (\A v \in S : v > t => v >= u) /\ u - t = w

\* one (first, last + w) for each maximal run of successive differences w
RunRanges(S, w) ==
    {<<p[1], p[2] + w>> : p \in
        {q \in S \X S :
            /\ q[1] <= q[2]
            /\ ~HasPredecessorAt(S, q[1], w)
            /\ ~HasSuccessorAt(S, q[2], w)
            /\ \A t \in S : (q[1] <= t /\ t < q[2]) => HasSuccessorAt(S, t, w)}}

\* C3: for distinct instants in any order, merge_consecutive_slots returns
\* exactly one range (first, last + w) per maximal run of successive
\* differences w, and with a threshold m > 0 exactly those of them whose
\* duration is at least m.
C3_RunsThenFilter ==
    (pc # "start" /\ Distinct(slots)) =>
        LET runs == RunRanges(Range(slots), slot_minutes)
            kept == IF min_duration_minutes > 0
                    THEN {r \in runs : r[2] - r[1] >= min_duration_minutes}
                    ELSE runs
        IN  /\ Range(merged) = kept
            /\ Len(merged) = Cardinality(kept)

\* a short range next to a long one across a gap is dropped, the long one kept,
\* from an input that is not in ascending order
C3_Witness ==
    /\ pc = "merged"
    /\ slots = <<60, 0, 15>>
    /\ slot_minutes = 15
    /\ min_duration_minutes = 30
    /\ merged = <<<<0, 30>>>>

\* two instants of the list are never less than one slot width apart
SlotsDoNotOverlap(s, w) ==
    \A i, j \in 1..Len(s) :
        i # j => (s[i] - s[j] >= w \/ s[j] - s[i] >= w)

StartsAfterPreviousEnd(rs) ==
    \A i \in 1..(Len(rs) - 1) :
        /\ rs[i][1] < rs[i + 1][1]
        /\ rs[i][2] < rs[i + 1][1]

\* C4 as claimed: for every input list, the returned ranges are sorted
\* ascending by start and each range starts strictly after the end of the
\* range before it.
C4_AnyInputNonOverlapping ==
    pc # "start" => StartsAfterPreviousEnd(merged)

\* C4, amended: for every input list of distinct instants of which any two are
\* at least one slot width apart, given in any order, the returned ranges are
\* sorted ascending by start and each range starts strictly after the end of
\* the range before it.
C4_SeparatedInputNonOverlapping ==
    (pc # "start" /\ Distinct(slots) /\ SlotsDoNotOverlap(slots, slot_minutes)) =>
        StartsAfterPreviousEnd(merged)

C4_Witness ==
    /\ pc = "merged"
    /\ slots = <<60, 0, 15>>
    /\ slot_minutes = 15
    /\ min_duration_minutes = 0
    /\ merged = <<<<0, 30>>, <<60, 75>>>>

\* C10: the parenthetical of format_time_range shows the duration of the
\* range: with H and M the whole hours and the remaining minutes of
\* end - start, the hour component is shown exactly when H > 0 and reads H, the
\* minute component exactly when M > 0 and reads M, and the parenthetical is
\* empty only for a zero-length range.
C10_DurationShown ==
    pc = "formatted" =>
        \A i \in 1..Len(merged) :
            LET length == merged[i][2] - merged[i][1]
                H == length \div 60
                M == length % 60
            IN  /\ formatted[i].duration =
                       (IF H > 0 THEN <<<<H, "hours">>>> ELSE <<>>)
                       \o (IF M > 0 THEN <<<<M, "minutes">>>> ELSE <<>>)
                /\ (formatted[i].duration = <<>> => length = 0)

-----------------------------------------------------------------------------
(* src/analyze.py: group_by_date and get_available_times_grouped           *)

DefaultMinDuration == 60

\* start.strftime("%Y-%m-%d"): the calendar day of an instant, kept as the
\* day's number (the strings of two days compare as the numbers do)
DateStr(t) == t \div MinutesPerDay

\* grouped[date_str].append((start, end)), over time_ranges in order
RECURSIVE GroupRanges(_, _)
GroupRanges(rs, acc) ==
    IF rs = <<>> THEN acc
    ELSE LET key == DateStr(Head(rs)[1])
             sofar == IF DictHas(acc, key) THEN DictGet(acc, key) ELSE <<>>
         IN  GroupRanges(Tail(rs), DictSet(acc, key, Append(sofar, Head(rs))))

RECURSIVE InsertByKey(_, _)
InsertByKey(x, s) ==
    IF s = <<>> THEN <<x>>
    ELSE IF x[1] < Head(s)[1] THEN <<x>> \o s
    ELSE <<Head(s)>> \o InsertByKey(x, Tail(s))

\* sorted(grouped.items())
RECURSIVE SortedItems(_)
SortedItems(d) ==
    IF d = <<>> THEN <<>>
    ELSE InsertByKey(d[Len(d)], SortedItems(SubSeq(d, 1, Len(d) - 1)))

GroupByDate(rs) == SortedItems(GroupRanges(rs, <<>>))

GetAvailableTimesGrouped(d, P, m) ==
    LET found == FindAvailableTimes(d, P)
        ranges == MergeConsecutiveSlots(found, d.slot_minutes, m)
        byDate == GroupByDate(ranges)
    IN  [i \in 1..Len(byDate) |->
            <<byDate[i][1],
              [j \in 1..Len(byDate[i][2]) |->
                  FormatTimeRange(byDate[i][2][j][1], byDate[i][2][j][2])]>>]

-----------------------------------------------------------------------------
(* src/analyze.py: find_alternatives                                       *)

\* the fixed suffix of a label (" 제외" in the source, written in ASCII here)
MissingSuffix == " je-oe"

\* itertools.combinations(participants, k): the k-tuples of elements taken at
\* increasing positions, in lexicographic order of the positions
RECURSIVE CombinationsFrom(_, _, _)
CombinationsFrom(P, k, lo) ==
    IF k = 0 THEN <<<<>>>>
    ELSE IF lo > Len(P) THEN <<>>
    ELSE LET with == CombinationsFrom(P, k - 1, lo + 1)
         IN  [j \in 1..Len(with) |-> <<P[lo]>> \o with[j]]
             \o CombinationsFrom(P, k, lo + 1)

Combinations(P, k) == CombinationsFrom(P, k, 1)

\* ", ".join(missing)
RECURSIVE Join(_)
Join(names) ==
    IF names = <<>> THEN ""
    ELSE IF Len(names) = 1 THEN names[1]
    ELSE names[1] \o ", " \o Join(Tail(names))

MissingKey(missing) == Join(missing) \o MissingSuffix

RemainingKeepsAll(P, missing) == P

\* [p for p in participants if p not in missing]
Remaining(P, missing) == SelectSeq(P, LAMBDA q : q \notin Range(missing))

\* range(1, min(max_missing + 1, len(participants))): its last value
LastMissingCount(P, mm) == Min(mm + 1, Len(P)) - 1

\* the body of the inner for loop, over the combinations of one size
RECURSIVE TryCombinations(_, _, _, _)
TryCombinations(d, P, combos, acc) ==
    IF combos = <<>> THEN acc
    ELSE LET missing == Head(combos)
             result == GetAvailableTimesGrouped(d, Remaining(P, missing), DefaultMinDuration)
         IN  TryCombinations(d, P, Tail(combos),
                 IF result # <<>> THEN DictSet(acc, MissingKey(missing), result) ELSE acc)

\* the outer for loop, from i to the last value of the range
RECURSIVE TryMissingCounts(_, _, _, _, _)
TryMissingCounts(d, P, i, last, acc) ==
    IF i > last THEN acc
    ELSE TryMissingCounts(d, P, i + 1, last, TryCombinations(d, P, Combinations(P, i), acc))

FindAlternatives(d, P, mm) == TryMissingCounts(d, P, 1, LastMissingCount(P, mm), <<>>)

-----------------------------------------------------------------------------
(* src/analyze.py: find_who_blocks                                         *)

AddedSlotsReversed(d, P, person) ==
    Cardinality(Range(FindAvailableTimes(d, P))
                \ Range(FindAvailableTimes(d, SelectSeq(P, LAMBDA q : q # person))))

AddedSlotsCountingBase(d, P, person) ==
    Cardinality(Range(FindAvailableTimes(d, SelectSeq(P, LAMBDA q : q # person))))

\* len(new_slots - base_slots) for one person
AddedSlots(d, P, person) ==
    LET base_slots == Range(FindAvailableTimes(d, P))
        remaining == SelectSeq(P, LAMBDA q : q # person)
        new_slots == Range(FindAvailableTimes(d, remaining))
    IN  Cardinality(new_slots \ base_slots)

\* the for loop over participants
RECURSIVE CollectBlockers(_, _, _, _)
CollectBlockers(d, P, i, acc) ==
    IF i > Len(P) THEN acc
    ELSE LET added_slots == AddedSlots(d, P, P[i])
         IN  CollectBlockers(d, P, i + 1,
                 IF added_slots > 0 THEN DictSet(acc, P[i], added_slots) ELSE acc)

RECURSIVE InsertByCountDescending(_, _)
InsertByCountDescending(x, s) ==
    IF s = <<>> THEN <<x>>
    ELSE IF -x[2] < -Head(s)[2] THEN <<x>> \o s
    ELSE <<Head(s)>> \o InsertByCountDescending(x, Tail(s))

\* sorted(blockers.items(), key=lambda x: -x[1]), a stable sort
RECURSIVE SortedByCount(_)
SortedByCount(d) ==
    IF d = <<>> THEN <<>>
    ELSE InsertByCountDescending(d[Len(d)], SortedByCount(SubSeq(d, 1, Len(d) - 1)))

FindWhoBlocks(d, P) == SortedByCount(CollectBlockers(d, P, 1, <<>>))

-----------------------------------------------------------------------------
(* Specification of the fallback analyses: one schedule and one list of    *)
(* unique names; the grouped result, the blockers and the alternatives are *)
(* computed in turn, as the app does.                                      *)

MaxAltSlots == 3
MaxMissing == 2

AltInstants == {0, 30, 60, 1440}
AltNames == {"A", "B", "A, B"}
AltSlotWidths == {30, 60}

\* data["slots"] ascending, as both fetchers build it
Ascending(s) == \A i \in 1..(Len(s) - 1) : s[i] < s[i + 1]

AltSchedules ==
    {[slot_minutes |-> w, slots |-> s, availability |-> av] :
        w \in AltSlotWidths,
        s \in {q \in SeqsUpTo(AltInstants, MaxAltSlots) : Ascending(q)},
        av \in UNION {[D -> SUBSET AltNames] : D \in SUBSET AltInstants}}

InitAlt ==
    /\ pc = "start"
    /\ data \in {d \in AltSchedules : DOMAIN d.availability = Range(d.slots)}
    /\ participants \in InjectiveSeqsUpTo(AltNames, Cardinality(AltNames))
    /\ reduced = None
    /\ yielded = None
    /\ yieldedReduced = None
    /\ IdleMerge
    /\ IdleAlt
    /\ IdleLoad

CallGetAvailableTimesGrouped ==
    /\ pc = "start"
    /\ grouped' = GetAvailableTimesGrouped(data, participants, DefaultMinDuration)
    /\ pc' = "grouped"
    /\ UNCHANGED <<intersectVars, mergeVars, max_missing, blockers, alternatives, loadVars>>

CallFindWhoBlocks ==
    /\ pc = "grouped"
    /\ blockers' = FindWhoBlocks(data, participants)
    /\ pc' = "blockers"
    /\ UNCHANGED <<intersectVars, mergeVars, max_missing, grouped, alternatives, loadVars>>

CallFindAlternatives ==
    /\ pc = "blockers"
    /\ \E mm \in 0..MaxMissing :
        /\ max_missing' = mm
        /\ alternatives' = FindAlternatives(data, participants, mm)
    /\ pc' = "alternatives"
    /\ UNCHANGED <<intersectVars, mergeVars, grouped, blockers, loadVars>>

NextAlt == CallGetAvailableTimesGrouped \/ CallFindWhoBlocks \/ CallFindAlternatives

SpecAlt == InitAlt /\ [][NextAlt]_vars

-----------------------------------------------------------------------------
(* C5, C6, C7, C8                                                          *)

\* the slots of the schedule at which every name of S is recorded available
CommonSlots(d, S) ==
    {s \in Range(d.slots) : s \in DOMAIN d.availability /\ S \subseteq d.availability[s]}

\* the exclusion sets find_alternatives is to try: 1..min(max_missing, n - 1) names
ExclusionSets(P, mm) ==
    {c \in SUBSET Range(P) : 1 <= Cardinality(c) /\ Cardinality(c) <= Min(mm, Len(P) - 1)}

\* the label of an exclusion set: its names in the order of participants
LabelOf(P, c) == MissingKey(SelectSeq(P, LAMBDA q : q \in c))

ResultWithout(d, P, c) ==
    GetAvailableTimesGrouped(d, SelectSeq(P, LAMBDA q : q \notin c), DefaultMinDuration)

\* C5: the entries of find_alternatives correspond exactly to the
\* combinations of 1..min(max_missing, n - 1) participants whose remaining
\* participants have a non-empty grouped result, each entry holding that
\* result; no entry excludes every participant and a single participant gives
\* an empty mapping.
C5_EntriesAreCombinations ==
    pc = "alternatives" =>
        LET good == {c \in ExclusionSets(participants, max_missing) :
                        ResultWithout(data, participants, c) # <<>>}
        IN  /\ Len(alternatives) = Cardinality(good)
            /\ \A c \in good :
                /\ DictHas(alternatives, LabelOf(participants, c))
                /\ DictGet(alternatives, LabelOf(participants, c))
                       = ResultWithout(data, participants, c)
            /\ \A k \in DictKeys(alternatives) :
                \E c \in good : k = LabelOf(participants, c) /\ c # Range(participants)
            /\ (Len(participants) = 1 => alternatives = <<>>)

\* C7: for a participants list of unique names, two distinct combinations
\* that find_alternatives tries never get the same label.
C7_LabelsUnique ==
    pc = "alternatives" =>
        \A i, j \in 1..LastMissingCount(participants, max_missing) :
            LET ci == Combinations(participants, i)
                cj == Combinations(participants, j)
            IN  \A a \in 1..Len(ci), b \in 1..Len(cj) :
                    ci[a] # cj[b] => MissingKey(ci[a]) # MissingKey(cj[b])

\* the schedules of C6, for participants [a, b, c]: no slot has all three,
\* every slot has a and b, or a and c
NoSlotForAllButPairs(d, P) ==
    /\ Len(P) = 3
    /\ \A s \in Range(d.slots) :
        /\ ~(Range(P) \subseteq AvailablePeople(d, s))
        /\ \/ {P[1], P[2]} \subseteq AvailablePeople(d, s)
           \/ {P[1], P[3]} \subseteq AvailablePeople(d, s)

\* C6 as claimed: on such a schedule the grouped result is empty and
\* find_alternatives with max_missing = 1 is non-empty, with an entry for
\* excluding b and an entry for excluding c.
C6_AlternativesAlwaysOffered ==
    (pc = "alternatives" /\ max_missing = 1 /\ NoSlotForAllButPairs(data, participants)) =>
        /\ grouped = <<>>
        /\ alternatives # <<>>
        /\ DictHas(alternatives, MissingKey(<<participants[2]>>))
        /\ DictHas(alternatives, MissingKey(<<participants[3]>>))

\* the runs of at least the default minimum duration among the slots of S
LongRuns(d, S) ==
    {r \in RunRanges(CommonSlots(d, S), d.slot_minutes) : r[2] - r[1] >= DefaultMinDuration}

RECURSIVE CountStrings(_)
CountStrings(g) == IF g = <<>> THEN 0 ELSE Len(Head(g)[2]) + CountStrings(Tail(g))

\* the entry for excluding x exists exactly when the others have a long run,
\* and then lists one string per long run: the grouped result of the others
EntryCovers(d, alts, x, others) ==
    /\ DictHas(alts, MissingKey(<<x>>)) <=> LongRuns(d, Range(others)) # {}
    /\ DictHas(alts, MissingKey(<<x>>)) =>
        /\ DictGet(alts, MissingKey(<<x>>)) = GetAvailableTimesGrouped(d, others, DefaultMinDuration)
        /\ CountStrings(DictGet(alts, MissingKey(<<x>>))) = Cardinality(LongRuns(d, Range(others)))

\* C6, amended: on such a schedule the grouped result is empty, and
\* find_alternatives with max_missing = 1 has an entry for excluding b exactly
\* when the slots where a and c are available contain a run of consecutive
\* slots of at least 60 minutes, an entry for excluding c exactly when the
\* slots where a and b are available do, each entry being the grouped result
\* of the two remaining participants, and no other entry.
C6_AlternativesOfferedForLongRuns ==
    (pc = "alternatives" /\ max_missing = 1 /\ NoSlotForAllButPairs(data, participants)) =>
        /\ grouped = <<>>
        /\ EntryCovers(data, alternatives, participants[2], <<participants[1], participants[3]>>)
        /\ EntryCovers(data, alternatives, participants[3], <<participants[1], participants[2]>>)
        /\ DictKeys(alternatives) \subseteq
               {MissingKey(<<participants[2]>>), MissingKey(<<participants[3]>>)}

C6_Witness ==
    /\ pc = "alternatives"
    /\ max_missing = 1
    /\ NoSlotForAllButPairs(data, participants)
    /\ data.slot_minutes = 30
    /\ Len(data.slots) = 3
    /\ grouped = <<>>
    /\ DictKeys(alternatives) = {MissingKey(<<participants[3]>>)}

\* slots gained when p alone is left out of the request
Gained(d, P, p) ==
    Cardinality(CommonSlots(d, Range(P) \ {p}) \ CommonSlots(d, Range(P)))

PositionIn(P, p) == CHOOSE i \in 1..Len(P) : P[i] = p

\* C8: find_who_blocks holds, for exactly the participants p who gain at
\* least one slot, the number of slots in the intersection without p and not
\* in the intersection of all; the entries are in descending order of that
\* number, equal numbers in the order of participants.
C8_BlockersRanked ==
    pc \in {"blockers", "alternatives"} =>
        /\ DictKeys(blockers) = {p \in Range(participants) : Gained(data, participants, p) > 0}
        /\ Len(blockers) = Cardinality(DictKeys(blockers))
        /\ \A i \in 1..Len(blockers) :
            blockers[i][2] = Gained(data, participants, blockers[i][1])
        /\ \A i, j \in 1..Len(blockers) :
            i < j => \/ blockers[i][2] > blockers[j][2]
                     \/ /\ blockers[i][2] = blockers[j][2]
                        /\ PositionIn(participants, blockers[i][1])
                               < PositionIn(participants, blockers[j][1])

\* the third participant blocks two slots, the first one slot, the second none
C8_Witness ==
    /\ pc = "blockers"
    /\ Len(participants) = 3
    /\ Len(blockers) = 2
    /\ blockers[1] = <<participants[3], 2>>
    /\ blockers[2] = <<participants[1], 1>>

-----------------------------------------------------------------------------
(* src/get_data/when2meet.py. An upstream reply is its status and, of the  *)
(* page, what the four regular expressions match, in page order.           *)

FetcherSlotMinutes == 15
UnknownEvent == "Unknown Event"

Raised == [raised |-> TRUE]
Returned(v) == [raised |-> FALSE, value |-> v]

\* a dict filled by d[key] = value over <<key, value>> matches in order
RECURSIVE DictFromMatches(_, _)
DictFromMatches(ms, acc) ==
    IF ms = <<>> THEN acc
    ELSE DictFromMatches(Tail(ms), DictSet(acc, Head(ms)[1], Head(ms)[2]))

\* _parse_people: {id: name}
ParsePeople(page) == DictFromMatches(page.people, <<>>)

\* _parse_time_slots: {slot_index: unix_timestamp}
ParseTimeSlots(page) == DictFromMatches(page.time_slots, <<>>)

\* _parse_availability: {slot_index: [person_id, ...]}
RECURSIVE AppendMatches(_, _)
AppendMatches(ms, acc) ==
    IF ms = <<>> THEN acc
    ELSE LET k == Head(ms)[1]
             sofar == IF DictHas(acc, k) THEN DictGet(acc, k) ELSE <<>>
         IN  AppendMatches(Tail(ms), DictSet(acc, k, Append(sofar, Head(ms)[2])))

ParseAvailability(page) == AppendMatches(page.availability, <<>>)

\* _parse_event_name
ParseEventName(page) == IF page.title = None THEN UnknownEvent ELSE page.title

\* datetime.fromtimestamp, to the minute
FromTimestamp(ts) == ts \div 60

RECURSIVE InsertByValue(_, _)
InsertByValue(x, s) ==
    IF s = <<>> THEN <<x>>
    ELSE IF x[2] < Head(s)[2] THEN <<x>> \o s
    ELSE <<Head(s)>> \o InsertByValue(x, Tail(s))

\* sorted(time_slots.items(), key=lambda x: x[1])
RECURSIVE SortedByValue(_)
SortedByValue(d) ==
    IF d = <<>> THEN <<>>
    ELSE InsertByValue(d[Len(d)], SortedByValue(SubSeq(d, 1, Len(d) - 1)))

\* the order of Python strings on the names of the model
NameOrder == <<"A", "B">>
NameRank(n) == CHOOSE i \in 1..Len(NameOrder) : NameOrder[i] = n

RECURSIVE InsertName(_, _)
InsertName(x, s) ==
    IF s = <<>> THEN <<x>>
    ELSE IF NameRank(x) < NameRank(Head(s)) THEN <<x>> \o s
    ELSE <<Head(s)>> \o InsertName(x, Tail(s))

\* sorted(people.values())
RECURSIVE SortedNames(_)
SortedNames(d) ==
    IF d = <<>> THEN <<>>
    ELSE InsertName(d[Len(d)][2], SortedNames(SubSeq(d, 1, Len(d) - 1)))

\* availability[dt] = names, an assignment to a dict keyed by instant
AssignAt(av, dt, names) ==
    [x \in DOMAIN av \cup {dt} |-> IF x = dt THEN names ELSE av[x]]

\* the normalising loop of get_when2meet_data; the list of names of a slot is
\* kept as the set every reader takes of it
RECURSIVE NormalizeSlots(_, _, _, _, _)
NormalizeSlots(items, people, raw, slotsAcc, avAcc) ==
    IF items = <<>> THEN <<slotsAcc, avAcc>>
    ELSE LET slot_idx == Head(items)[1]
             dt == FromTimestamp(Head(items)[2])
             person_ids == IF DictHas(raw, slot_idx) THEN DictGet(raw, slot_idx) ELSE <<>>
             names == {DictGet(people, person_ids[k]) :
                          k \in {j \in 1..Len(person_ids) : DictHas(people, person_ids[j])}}
         IN  NormalizeSlots(Tail(items), people, raw,
                 Append(slotsAcc, dt), AssignAt(avAcc, dt, names))

\* _get_html raises: requests.get on a network failure, raise_for_status on an
\* HTTP error status
GetHtmlRaises(reply) == reply.status # "ok"

GetWhen2meetData(reply) ==
    IF GetHtmlRaises(reply) THEN Raised
    ELSE LET people == ParsePeople(reply)
             time_slots == ParseTimeSlots(reply)
             raw_availability == ParseAvailability(reply)
             normal == NormalizeSlots(SortedByValue(time_slots), people,
                                      raw_availability, <<>>, <<>>)
         IN  Returned([source |-> "when2meet",
                       name |-> ParseEventName(reply),
                       participants |-> SortedNames(people),
                       slot_minutes |-> FetcherSlotMinutes,
                       slots |-> normal[1],
                       availability |-> normal[2]])

-----------------------------------------------------------------------------
(* src/get_data/timepick.py. An upstream reply is its status and its body: *)
(* not JSON, a JSON object without the event's keys, or an event.          *)

\* a token of the dates string: <<day number>> when it reads as a date, <<>>
\* when datetime.strptime(date_str, "%Y-%m-%d") raises a ValueError
BadDate == <<>>
DatesParse(dates) == \A k \in 1..Len(dates) : dates[k] # BadDate

RECURSIVE SlotsOfDay(_, _)
SlotsOfDay(current_time, end_time) ==
    IF current_time < end_time
    THEN <<current_time>> \o SlotsOfDay(current_time + FetcherSlotMinutes, end_time)
    ELSE <<>>

\* _generate_slots
RECURSIVE GenerateSlots(_, _, _)
GenerateSlots(dates, start_hour, end_hour) ==
    IF dates = <<>> THEN <<>>
    ELSE LET last_hour == IF end_hour = 0 THEN 24 ELSE end_hour
             midnight == Head(dates)[1] * MinutesPerDay
         IN  SlotsOfDay(midnight + start_hour * 60, midnight + last_hour * 60)
             \o GenerateSlots(Tail(dates), start_hour, end_hour)

\* _parse_availability of timepick: the names whose string has "1" at the
\* position of the slot
TimepickAvailability(group_availability, ss) ==
    [s \in Range(ss) |->
        {group_availability[n][1] : n \in
            {m \in 1..Len(group_availability) :
                \E k \in 1..Len(ss) :
                    /\ ss[k] = s
                    /\ k <= Len(group_availability[m][2])
                    /\ group_availability[m][2][k] = "1"}}]

\* _fetch_data raises: the request, raise_for_status, or response.json()
FetchDataRaises(reply) == reply.status # "ok" \/ reply.body = "not json"

GetTimepickData(reply) ==
    IF FetchDataRaises(reply) THEN Raised
    ELSE IF reply.body = "no event keys" THEN Raised
    ELSE IF ~DatesParse(reply.dates) THEN Raised
    ELSE LET ss == GenerateSlots(reply.dates, reply.startTime, reply.endTime)
         IN  Returned([source |-> "timepick",
                       name |-> reply.name,
                       participants |-> reply.participants,
                       slot_minutes |-> FetcherSlotMinutes,
                       slots |-> ss,
                       availability |-> TimepickAvailability(reply.groupAvailability, ss)])

-----------------------------------------------------------------------------
(* src/app.py: the load handler. A url is what detect_source reads of it:  *)
(* whether it contains "when2meet.com" and whether it contains             *)
(* "timepick.net"; the handler runs only for a non-empty url.              *)

MaxLoads == 2

Urls == [when2meet : BOOLEAN, timepick : BOOLEAN]

\* detect_source, for a non-empty url
DetectSource(url) ==
    IF url.when2meet THEN "when2meet"
    ELSE IF url.timepick THEN "timepick"
    ELSE None

NoReply == [source |-> "none"]

\* st.session_state.data before any load
NoData == [source |-> "none"]

FailedReply(src) == [source |-> src, status |-> "error"]

When2meetReplies ==
    {FailedReply("when2meet")} \cup
    {[source |-> "when2meet", status |-> "ok", people |-> p, time_slots |-> ts,
      availability |-> a, title |-> tt] :
        p \in {<<>>, <<<<1, "A">>>>, <<<<2, "B">>, <<1, "A">>>>},
        ts \in {<<>>, <<<<0, 900>>>>, <<<<0, 1800>>, <<1, 900>>>>},
        a \in {<<>>, <<<<0, 1>>>>, <<<<0, 1>>, <<1, 2>>, <<1, 9>>, <<0, 2>>>>},
        tt \in {None, "Jam"}}

TimepickReplies ==
    {FailedReply("timepick")} \cup
    {[source |-> "timepick", status |-> "ok", body |-> b] : b \in {"not json", "no event keys"}} \cup
    {[source |-> "timepick", status |-> "ok", body |-> "event", dates |-> ds,
      startTime |-> 23, endTime |-> eh, groupAvailability |-> ga,
      name |-> "Jam", participants |-> [k \in 1..Len(ga) |-> ga[k][1]]] :
        ds \in {<<<<0>>>>, <<<<1>>, <<0>>>>, <<<<0>>, BadDate>>},
        eh \in {0, 23},
        ga \in {<<>>, <<<<"A", <<"1", "1", "0">>>>>>,
                <<<<"A", <<"1", "0">>>>, <<"B", <<"0", "1", "1", "1", "1", "1", "1", "1", "1">>>>>>}}

InitLoad ==
    /\ pc = "app"
    /\ session_data = NoData
    /\ shown = None
    /\ fetched = NoReply
    /\ cache = <<>>
    /\ loads = 0
    /\ IdleIntersect
    /\ IdleMerge
    /\ IdleAlt

\* load_when2meet / load_timepick under st.cache_data, then the handler's
\* try/except: a cached url is answered from the cache without a request
LoadThrough(src, url, reply, result) ==
    /\ loads < MaxLoads
    /\ loads' = loads + 1
    /\ IF DictHas(cache, <<src, url>>)
       THEN /\ fetched' = NoReply
            /\ session_data' = DictGet(cache, <<src, url>>)
            /\ shown' = "success"
            /\ cache' = cache
       ELSE /\ fetched' = reply
            /\ IF result.raised
               THEN /\ shown' = "error"
                    /\ UNCHANGED <<session_data, cache>>
               ELSE /\ session_data' = result.value
                    /\ shown' = "success"
                    /\ cache' = DictSet(cache, <<src, url>>, result.value)
    /\ UNCHANGED <<pc, intersectVars, mergeVars, altVars>>

LoadUnknownLink ==
    /\ loads < MaxLoads
    /\ \E url \in Urls : DetectSource(url) = None
    /\ loads' = loads + 1
    /\ shown' = "not a link"
    /\ fetched' = NoReply
    /\ UNCHANGED <<pc, session_data, cache, intersectVars, mergeVars, altVars>>

LoadWhen2meet ==
    \E url \in Urls, reply \in When2meetReplies :
        /\ DetectSource(url) = "when2meet"
        /\ LoadThrough("when2meet", url, reply, GetWhen2meetData(reply))

LoadTimepick ==
    \E url \in Urls, reply \in TimepickReplies :
        /\ DetectSource(url) = "timepick"
        /\ LoadThrough("timepick", url, reply, GetTimepickData(reply))

\* ttl=3600: an entry of the cache is dropped
CacheExpires ==
    /\ \E k \in 1..Len(cache) :
        cache' = SubSeq(cache, 1, k - 1) \o SubSeq(cache, k + 1, Len(cache))
    /\ UNCHANGED <<pc, session_data, shown, fetched, loads, intersectVars, mergeVars, altVars>>

NextLoad == LoadUnknownLink \/ LoadWhen2meet \/ LoadTimepick \/ CacheExpires

SpecLoad == InitLoad /\ [][NextLoad]_vars

-----------------------------------------------------------------------------
(* C9                                                                      *)

\* the reply could not be loaded: the fetch failed, or the body is not in the
\* format of the source (a when2meet page with none of the data of an event
\* page; a timepick body that is no event)
NotLoadable(reply) ==
    \/ reply.status # "ok"
    \/ /\ reply.source = "when2meet"
       /\ reply.people = <<>>
       /\ reply.time_slots = <<>>
       /\ reply.availability = <<>>
       /\ reply.title = None
    \/ /\ reply.source = "timepick"
       /\ \/ reply.body # "event"
          \/ ~DatesParse(reply.dates)

\* C9: when the fetch fails or the reply is not in the recognised format,
\* the fetcher raises and the app shows the error: it never reports a
\* successful load of data that could not be loaded.
C9_FailuresSurfaced ==
    (fetched # NoReply /\ NotLoadable(fetched)) => shown = "error"

-----------------------------------------------------------------------------
(* C11                                                                     *)

\* C11: when the grouped result with the default 60-minute minimum is empty
\* and find_alternatives with max_missing = 1 has an entry for excluding a
\* person p, find_who_blocks lists p with a value of at least 1.
C11_AlternativeHasBlocker ==
    (pc = "alternatives" /\ max_missing = 1 /\ grouped = <<>>) =>
        \A p \in Range(participants) :
            DictHas(alternatives, MissingKey(<<p>>)) =>
                /\ DictHas(blockers, p)
                /\ DictGet(blockers, p) >= 1

\* all the participants share a slot, but no run of 60 minutes; leaving one
\* person out gives such a run, and that person is listed as a blocker
C11_Witness ==
    /\ pc = "alternatives"
    /\ max_missing = 1
    /\ grouped = <<>>
    /\ Len(participants) = 3
    /\ CommonSlots(data, Range(participants)) # {}
    /\ \E p \in Range(participants) :
        /\ DictHas(alternatives, MissingKey(<<p>>))
        /\ DictHas(blockers, p)

====
